---- MODULE Spec2Model ----
(***************************************************************************)
(* Model of the waitlist form of 360EVO (src/script.js, class              *)
(* WaitlistForm): field validation, the submit handler, the remote POST    *)
(* and the localStorage fallback.                                          *)
(*                                                                         *)
(* Text values are sequences of one-character strings, so that trim(),     *)
(* toLowerCase() and the two regular expressions are computed and not      *)
(* assumed.  Messages are sequences of string fragments, so that           *)
(* concatenation ('Failed to save waitlist entry: ' + error.message) is    *)
(* \o.  Every async function is cut at its await points: one action per    *)
(* synchronous stretch of code.                                            *)
(***************************************************************************)
EXTENDS Integers, Sequences, FiniteSets, TLC

\* ------------------------------------------------------------------------
\* Bounds of the model
\* ------------------------------------------------------------------------

\* Number of handleSubmit invocations (submit events) in a run.
MaxInvocations == 2

\* Largest reading of the clock (Date.now(), new Date()).
MaxClock == 1

Invocations == 1..MaxInvocations

\* Longest text entered into a name field or another plain field when
\* validateField is exercised on its own.
MaxNameLen == 3

\* Longest text entered into the email field when validateField is
\* exercised on its own (a@b.c takes five characters).
MaxEmailLen == 5

\* ------------------------------------------------------------------------
\* Characters and strings
\* ------------------------------------------------------------------------

Upper == <<"A","B","C","D","E","F","G","H","I","J","K","L","M",
           "N","O","P","Q","R","S","T","U","V","W","X","Y","Z">>

Lower == <<"a","b","c","d","e","f","g","h","i","j","k","l","m",
           "n","o","p","q","r","s","t","u","v","w","x","y","z">>

\* \s of the regular expressions and the characters trim() strips.
WhiteSpace == {" ", "\t", "\n"}

Range(s) == {s[i] : i \in DOMAIN s}

IsLetter(c) == c \in Range(Upper) \cup Range(Lower)

\* String.prototype.toLowerCase on one character.
LowerChar(c) ==
    IF c \in Range(Upper)
    THEN Lower[CHOOSE i \in DOMAIN Upper : Upper[i] = c]
    ELSE c

\* toLowerCase() left out: the text as it is.
toLowerCaseLeftOut(s) == s

toLowerCase(s) == [i \in DOMAIN s |-> LowerChar(s[i])]

\* String.prototype.trim: drops the leading and trailing white space.
trim(s) ==
    LET keep == {i \in DOMAIN s : s[i] \notin WhiteSpace}
    IN IF keep = {} THEN <<>>
       ELSE LET lo == CHOOSE i \in keep : \A j \in keep : i <= j
                hi == CHOOSE i \in keep : \A j \in keep : j <= i
            IN SubSeq(s, lo, hi)

\* One fragment of message text.
Msg(t) == <<t>>

NoMessage == <<>>

\* ------------------------------------------------------------------------
\* Validator (src/script.js 22-65)
\* ------------------------------------------------------------------------

\* [^\s@]: a character that is neither white space nor '@'.
EmailAtom(c) == c \notin WhiteSpace /\ c # "@"

\* The expression without its '\.[^\s@]+' part: /^[^\s@]+@[^\s@]+$/.
isValidEmailNoDot(email) ==
    \E i \in DOMAIN email :
        /\ 1 < i /\ i < Len(email)
        /\ email[i] = "@"
        /\ \A k \in DOMAIN email : k # i => EmailAtom(email[k])

\* /^[^\s@]+@[^\s@]+\.[^\s@]+$/.test(email): some '@' at position i and
\* some '.' at position j split the text into three non-empty runs of
\* [^\s@] characters.
isValidEmail(email) ==
    \E i \in DOMAIN email : \E j \in DOMAIN email :
        /\ 1 < i /\ i + 1 < j /\ j < Len(email)
        /\ email[i] = "@"
        /\ email[j] = "."
        /\ \A k \in DOMAIN email : k # i => EmailAtom(email[k])

\* The expression with digits let in: /^[a-zA-Z0-9\s'-]+$/.
isValidNameOrDigits(name) ==
    /\ Len(name) > 0
    /\ \A k \in DOMAIN name :
          \/ IsLetter(name[k])
          \/ name[k] \in {"0", "1", "2", "3", "4", "5", "6", "7", "8", "9"}
          \/ name[k] \in WhiteSpace \/ name[k] \in {"'", "-"}

\* /^[a-zA-Z\s'-]+$/.test(name)
isValidName(name) ==
    /\ Len(name) > 0
    /\ \A k \in DOMAIN name :
          IsLetter(name[k]) \/ name[k] \in WhiteSpace \/ name[k] \in {"'", "-"}

NoError == ""

\* validateField with the kind-specific checks not guarded by 'value &&':
\* they run, and overwrite errorMessage, on an empty value too.
validateFieldUnguarded(fieldName, rawValue) ==
    LET value == trim(rawValue)
        e1 == IF value = <<>> THEN "This field is required" ELSE NoError
        e2 == IF fieldName = "email" /\ ~isValidEmail(value)
              THEN "Please enter a valid email address" ELSE e1
        e3 == IF fieldName \in {"firstName", "lastName"} /\ ~isValidName(value)
              THEN "Please use letters only" ELSE e2
    IN e3

\* The message validateField shows for a field, NoError when it returns
\* true.  The three checks run in the order of the code, each overwriting
\* errorMessage.
validateField(fieldName, rawValue) ==
    LET value == trim(rawValue)
        e1 == IF value = <<>> THEN "This field is required" ELSE NoError
        e2 == IF fieldName = "email" /\ value # <<>> /\ ~isValidEmail(value)
              THEN "Please enter a valid email address" ELSE e1
        e3 == IF fieldName \in {"firstName", "lastName"} /\ value # <<>>
                 /\ ~isValidName(value)
              THEN "Please use letters only" ELSE e2
    IN e3

\* ------------------------------------------------------------------------
\* The form (the rendering environment as far as the code reads and writes)
\* ------------------------------------------------------------------------

TextFields == {"firstName", "lastName", "email", "company", "interest"}

\* The fields this.form.querySelectorAll('[required]') returns.  The markup
\* of the page is not among the sources; the model takes the first name and
\* the email as the required fields.
RequiredFields == {"firstName", "email"}

\* Values a user enters, per field.
ANN_EMAIL == <<"A","N","N","@","E","x","a","m","p","l","e",".","c","o","m">>

ann_email_padded == <<" ","a","n","n","@","e","x","a","m","p","l","e",".","c","o","m"," ">>

bob_email == <<"b","o","b","@","x",".","i","o">>

not_an_email == <<"n","o","t","-","a","n","-","e","m","a","i","l">>

\* The fields the user types into in this model; the others keep their
\* default values.
Editable == {"firstName", "email"}

Entered(f) ==
    CASE f = "firstName" -> {<<"A","n","n">>}
      [] f = "email"     -> {ANN_EMAIL, ann_email_padded, bob_email, not_an_email}

\* form.reset(): every field back to its default value.
EmptyFields ==
    [f \in TextFields |-> IF f = "interest" THEN <<"d","e","m","o">> ELSE <<>>]

\* ------------------------------------------------------------------------
\* Submission pipeline: pure parts (src/script.js 136-201)
\* ------------------------------------------------------------------------

\* new Date(t).toISOString(): the clock reading as ISO-8601 text.
toISOString(t) == <<"1970-01-01T00:00:00.", ToString(t), "Z">>

\* collectFormData with the email kept as typed but for the trim (the
\* toLowerCase() of line 141 left out).
collectFormDataAsTyped(fields, newsletter, t) ==
    [ firstName  |-> trim(fields["firstName"]),
      lastName   |-> trim(fields["lastName"]),
      email      |-> trim(fields["email"]),
      company    |-> trim(fields["company"]),
      interest   |-> fields["interest"],
      newsletter |-> newsletter,
      timestamp  |-> toISOString(t),
      userAgent  |-> "navigator.userAgent",
      referrer   |-> "Direct" ]

\* The snapshot collectFormData builds from the form at clock reading t.
collectFormData(fields, newsletter, t) ==
    [ firstName  |-> trim(fields["firstName"]),
      lastName   |-> trim(fields["lastName"]),
      email      |-> toLowerCase(trim(fields["email"])),
      company    |-> trim(fields["company"]),
      interest   |-> fields["interest"],
      newsletter |-> newsletter,
      timestamp  |-> toISOString(t),
      userAgent  |-> "navigator.userAgent",
      referrer   |-> "Direct" ]

\* The value under the key '360evo_waitlist'.  kind is "null" (no item),
\* "garbage" (text that is no JSON), "object" (JSON text of a value that is
\* no array) or "array" (JSON text of an array, whose elements are items).
NullItem == [kind |-> "null", items |-> <<>>]

GarbageItem == [kind |-> "garbage", items |-> <<>>]

ObjectItem == [kind |-> "object", items |-> <<>>]

\* JSON.stringify of an array of entries: strings and booleans only, which
\* JSON keeps as they are.
JSONstringify(waitlist) == [kind |-> "array", items |-> waitlist]

\* JSON.parse of a stored text: throws a SyntaxError on text that is no JSON.
JSONparse(text) ==
    IF text.kind = "garbage"
    THEN [thrown |-> TRUE, error |-> Msg("Unexpected token"),
          isArray |-> FALSE, items |-> <<>>]
    ELSE [thrown |-> FALSE, error |-> NoMessage,
          isArray |-> (text.kind = "array"), items |-> text.items]

\* localStorage.getItem('360evo_waitlist') without the || '[]' of line 179.
getItemRaw(item) == item

\* The stored item not read at all: the list always starts as '[]'.
getItemIgnored(item) == JSONstringify(<<>>)

\* localStorage.getItem('360evo_waitlist') || '[]'
getItemOrEmpty(item) == IF item.kind = "null" THEN JSONstringify(<<>>) ELSE item

\* The duplicate check of line 182 left out.
someEmailNever(waitlist, email) == FALSE

\* waitlist.some(entry => entry.email === data.email)
someEmail(waitlist, email) == \E i \in DOMAIN waitlist : waitlist[i].email = email

\* The entry pushed (lines 187-191): {...data, id, submittedAt}, with
\* Date.now() reading tId and new Date() reading tAt.
newEntry(data, tId, tAt) ==
    [ firstName   |-> data.firstName,
      lastName    |-> data.lastName,
      email       |-> data.email,
      company     |-> data.company,
      interest    |-> data.interest,
      newsletter  |-> data.newsletter,
      timestamp   |-> data.timestamp,
      userAgent   |-> data.userAgent,
      referrer    |-> data.referrer,
      id          |-> ToString(tId),
      submittedAt |-> toISOString(tAt) ]

Success(message, payload) ==
    [success |-> TRUE, message |-> message, data |-> payload]

Failure(message) ==
    [success |-> FALSE, message |-> message, data |-> "undefined"]

DuplicateMessage == Msg("This email is already on our waitlist.")

OfflineMessage == Msg("Successfully added to waitlist (offline mode)")

\* The body of the try block of fallbackToLocalStorage (lines 178-196), for
\* the stored item, a storage that is full or not, and the clock (the last
\* reading clock.now and the two readings clock.id and clock.at the code
\* takes if it gets to line 189): the item and the last clock reading
\* afterwards, and either the value returned or the error thrown.
fallbackTry(data, item, full, clock) ==
    LET parsed   == JSONparse(getItemOrEmpty(item))
        waitlist == parsed.items
    IN IF parsed.thrown
       THEN [thrown |-> TRUE, error |-> parsed.error, item |-> item,
             now |-> clock.now, result |-> Failure(NoMessage)]
       ELSE IF ~parsed.isArray
       THEN [thrown |-> TRUE, error |-> Msg("waitlist.some is not a function"),
             item |-> item, now |-> clock.now, result |-> Failure(NoMessage)]
       ELSE IF someEmail(waitlist, data.email)
       THEN [thrown |-> FALSE, error |-> NoMessage, item |-> item,
             now |-> clock.now, result |-> Failure(DuplicateMessage)]
       ELSE IF full
       THEN [thrown |-> TRUE, error |-> Msg("The quota has been exceeded."),
             item |-> item, now |-> clock.at, result |-> Failure(NoMessage)]
       ELSE [thrown |-> FALSE, error |-> NoMessage,
             item |-> JSONstringify(Append(waitlist, newEntry(data, clock.id, clock.at))),
             now |-> clock.at,
             result |-> Success(OfflineMessage, "undefined")]

\* fallbackToLocalStorage without its catch block: what the try block
\* throws leaves the function.
fallbackWithoutCatch(data, item, full, clock) == fallbackTry(data, item, full, clock)

\* fallbackToLocalStorage with a catch block that returns the fixed prefix
\* alone, without error.message.
fallbackCatchDropsMessage(data, item, full, clock) ==
    LET r == fallbackTry(data, item, full, clock)
    IN IF r.thrown
       THEN [thrown |-> FALSE, error |-> NoMessage, item |-> r.item, now |-> r.now,
             result |-> Failure(Msg("Failed to save waitlist entry: "))]
       ELSE r

\* fallbackToLocalStorage: the try block, and the catch block (lines
\* 198-200) that turns a thrown error into a failure value.
fallbackToLocalStorage(data, item, full, clock) ==
    LET r == fallbackTry(data, item, full, clock)
    IN IF r.thrown
       THEN [thrown |-> FALSE, error |-> NoMessage, item |-> r.item, now |-> r.now,
             result |-> Failure(Msg("Failed to save waitlist entry: ") \o r.error)]
       ELSE r

\* What the remote endpoint does with one POST.  kind "reject": fetch
\* rejects (no connection).  kind "response": an HTTP response with a status
\* and a body, which is JSON text of an object with a message ("message"),
\* JSON text of an object without one ("object"), or no JSON ("garbage").
RejectedFetch == [kind |-> "reject", status |-> 0, body |-> "none"]

\* The response variable of an invocation that holds no response.
NoResponse == [kind |-> "none", status |-> 0, body |-> "none"]

Remote ==
    {RejectedFetch}
    \cup [kind : {"response"}, status : {201}, body : {"object", "garbage"}]
    \cup [kind : {"response"}, status : {500}, body : {"message", "object", "garbage"}]

\* response.ok: the status is in 200..299.
ok(response) == response.status >= 200 /\ response.status <= 299

\* The message property of the parsed body; NoMessage when it has none.
ServerMessage == Msg("Email rejected by server")

\* response.json(): rejects when the body is no JSON.
json(response) ==
    IF response.body = "garbage"
    THEN [thrown |-> TRUE, error |-> Msg("Unexpected end of JSON input"),
          message |-> NoMessage, payload |-> "undefined"]
    ELSE [thrown |-> FALSE, error |-> NoMessage,
          message |-> IF response.body = "message" THEN ServerMessage ELSE NoMessage,
          payload |-> response.body]

\* The message of the Error thrown at line 163 for a response that is not
\* ok: errorData is the parsed body, or {message: 'Network response was not
\* ok'} when response.json() rejects.
remoteErrorMessage(response) ==
    LET parsed    == json(response)
        errorData == IF parsed.thrown THEN Msg("Network response was not ok")
                     ELSE parsed.message
    IN IF errorData # NoMessage THEN errorData
       ELSE <<"HTTP error! status: ", ToString(response.status)>>

\* ------------------------------------------------------------------------
\* Presentation (src/script.js 203-260)
\* ------------------------------------------------------------------------

\* setLoadingState that can only enter the loading state.
setLoadingStateStuck(isLoading) ==
    [disabled |-> TRUE, btnText |-> "none", btnLoading |-> "flex"]

\* setLoadingState without line 208: the labels change, the control is
\* never disabled.
setLoadingStateLabelsOnly(isLoading) ==
    [ disabled   |-> FALSE,
      btnText    |-> IF isLoading THEN "none" ELSE "flex",
      btnLoading |-> IF isLoading THEN "flex" ELSE "none" ]

\* setLoadingState(isLoading): the submit control afterwards.
setLoadingState(isLoading) ==
    [ disabled   |-> isLoading,
      btnText    |-> IF isLoading THEN "none" ELSE "flex",
      btnLoading |-> IF isLoading THEN "flex" ELSE "none" ]

\* handleSubmit without its call of resetForm: the form as it was.
resetFormLeftOut(formFields, checked) ==
    [fields |-> formFields, newsletter |-> checked]

\* resetForm (lines 253-260) on a form with these field values and this
\* state of the newsletter checkbox: form.reset(), then the checkbox
\* checked.
resetForm(formFields, checked) ==
    [fields |-> EmptyFields, newsletter |-> TRUE]

\* The submit control of the page as loaded.
InitialButton == [disabled |-> FALSE, btnText |-> "", btnLoading |-> ""]

InvalidFormMessage == Msg("Please fill in all required fields correctly.")

GenericErrorMessage ==
    Msg("Sorry, there was an error joining the waitlist. Please try again.")

\* The banner handleSubmit shows in its catch block (line 130) for the
\* error it caught.
catchBanner(errorMessage) == GenericErrorMessage

\* ------------------------------------------------------------------------
\* State
\* ------------------------------------------------------------------------

VARIABLES
    fields,      \* the value of each text field of the form
    newsletter,  \* the newsletter checkbox is checked
    errors,      \* the inline error under each required field, NoError if none
    banner,      \* the text of the .form-error-message banner, NoMessage if none
    submitBtn,   \* the submit control: disabled, and the display of its two labels
    formDisplay, \* this.form.style.display
    successDisplay, \* this.successMessage.style.display
    item,        \* localStorage['360evo_waitlist']
    full,        \* localStorage.setItem throws (quota exceeded)
    now,         \* the last reading the code took of the clock
    pc,          \* where each handleSubmit invocation stands
    data,        \* formData of each invocation
    response,    \* the response each invocation's fetch resolved with
    caught,      \* the error each invocation's submitToWaitlist caught (line 169)
    promise      \* the promise submitToWaitlist returned to each invocation

vars == <<fields, newsletter, errors, banner, submitBtn, formDisplay,
          successDisplay, item, full, now, pc, data, response, caught, promise>>

NoData == collectFormData(EmptyFields, FALSE, 0)

Pending == [state |-> "pending", value |-> Failure(NoMessage), error |-> NoMessage]

Fulfilled(result) == [state |-> "fulfilled", value |-> result, error |-> NoMessage]

Rejected(error) == [state |-> "rejected", value |-> Failure(NoMessage), error |-> error]

\* The page as loaded, before any event.  The stored item is whatever an
\* earlier session or another script left under the key; the model starts
\* from no item, an empty list, and two items the code cannot read.  A
\* full storage is taken together with no item (with an item the code
\* cannot read it changes nothing: the code never gets to write).
Init ==
    /\ fields = EmptyFields
    /\ newsletter \in BOOLEAN
    /\ errors = [f \in RequiredFields |-> NoError]
    /\ banner = NoMessage
    /\ submitBtn = InitialButton
    /\ formDisplay = ""
    /\ successDisplay = "none"
    /\ item \in {NullItem, JSONstringify(<<>>), GarbageItem, ObjectItem}
    /\ full \in BOOLEAN
    /\ full => item = NullItem
    /\ now = 0
    /\ pc = [h \in Invocations |-> "new"]
    /\ data = [h \in Invocations |-> NoData]
    /\ response = [h \in Invocations |-> NoResponse]
    /\ caught = [h \in Invocations |-> NoMessage]
    /\ promise = [h \in Invocations |-> Pending]

\* ------------------------------------------------------------------------
\* Environment: the user and the banner's timer
\* ------------------------------------------------------------------------

\* clearFieldError (lines 81-91), bound to 'input' on the required fields.
clearFieldError(f) ==
    IF f \in RequiredFields THEN [errors EXCEPT ![f] = NoError] ELSE errors

\* The user types value v into field f of the visible form: an 'input'
\* event.
Input(f, v) ==
    /\ formDisplay # "none"
    /\ fields[f] # v
    /\ fields' = [fields EXCEPT ![f] = v]
    /\ errors' = clearFieldError(f)
    /\ UNCHANGED <<newsletter, banner, submitBtn, formDisplay, successDisplay,
                   item, full, now, pc, data, response, caught, promise>>

\* A required field loses focus: validateField, bound to 'blur'.
Blur(f) ==
    /\ errors' = [errors EXCEPT ![f] = validateField(f, fields[f])]
    /\ UNCHANGED <<fields, newsletter, banner, submitBtn, formDisplay,
                   successDisplay, item, full, now, pc, data, response,
                   caught, promise>>

\* The timer of showFormError (lines 248-250) removes the banner.
DismissBanner ==
    /\ banner # NoMessage
    /\ banner' = NoMessage
    /\ UNCHANGED <<fields, newsletter, errors, submitBtn, formDisplay,
                   successDisplay, item, full, now, pc, data, response,
                   caught, promise>>

\* ------------------------------------------------------------------------
\* handleSubmit and submitToWaitlist, cut at their await points
\* ------------------------------------------------------------------------

\* isValid taken from the last field validated alone (isValid assigned, not
\* only cleared, in the loop).
lastValid(shown) == shown["email"] = NoError

\* isValid after the loop of lines 98-104 over the messages validateField
\* gave for the required fields.
allValid(shown) == \A f \in RequiredFields : shown[f] = NoError

\* showFormError(message) (lines 234-251): the banner afterwards.
showFormError(message) == message

\* The catch block of submitToWaitlist (lines 169-173) for invocation h:
\* the fallback runs, at any clock readings not before the last one, and
\* what it returns settles the promise.
CatchAndFallBack(h, error) ==
    \E tId \in now..MaxClock : \E tAt \in tId..MaxClock :
    LET r == fallbackToLocalStorage(data[h], item, full,
                                    [now |-> now, id |-> tId, at |-> tAt])
    IN /\ caught' = [caught EXCEPT ![h] = error]
       /\ item' = r.item
       /\ now' = r.now
       /\ promise' = [promise EXCEPT ![h] =
                         IF r.thrown THEN Rejected(r.error) ELSE Fulfilled(r.result)]

\* A submit event: handleSubmit from its start to its first await (lines
\* 93-119 and, inside submitToWaitlist, 151-159), or to the early return of
\* line 108.  Nothing in the code ties the event to the state of the submit
\* control.
HandleSubmit(h) ==
    /\ pc[h] = "new"
    /\ \A k \in Invocations : k < h => pc[k] # "new"
    /\ LET shown == [f \in RequiredFields |-> validateField(f, fields[f])]
       IN /\ errors' = shown
          /\ IF ~allValid(shown)
             THEN /\ banner' = showFormError(InvalidFormMessage)
                  /\ pc' = [pc EXCEPT ![h] = "done"]
                  /\ UNCHANGED <<submitBtn, data, now>>
             ELSE /\ submitBtn' = setLoadingState(TRUE)
                  /\ \E t \in now..MaxClock :
                        /\ now' = t
                        /\ data' = [data EXCEPT ![h] =
                                       collectFormData(fields, newsletter, t)]
                  /\ pc' = [pc EXCEPT ![h] = "fetch"]
                  /\ UNCHANGED banner
    /\ UNCHANGED <<fields, newsletter, formDisplay, successDisplay, item, full,
                   response, caught, promise>>

\* The fetch of invocation h settles with remote behaviour r (line 153).
\* A rejection goes to the catch block; a response goes on to read its body
\* (line 162 or line 166).
FetchSettles(h, r) ==
    /\ pc[h] = "fetch"
    /\ IF r.kind = "reject"
       THEN /\ CatchAndFallBack(h, Msg("Failed to fetch"))
            /\ pc' = [pc EXCEPT ![h] = "resume"]
            /\ UNCHANGED response
       ELSE /\ pc' = [pc EXCEPT ![h] = IF ok(r) THEN "body" ELSE "errorBody"]
            /\ response' = [response EXCEPT ![h] = r]
            /\ UNCHANGED <<caught, item, promise, now>>
    /\ UNCHANGED <<fields, newsletter, errors, banner, submitBtn, formDisplay,
                   successDisplay, full, data>>

\* The body of a response that is not ok has been read (line 162): line 163
\* throws, the catch block runs.
ErrorBodySettles(h) ==
    /\ pc[h] = "errorBody"
    /\ CatchAndFallBack(h, remoteErrorMessage(response[h]))
    /\ pc' = [pc EXCEPT ![h] = "resume"]
    /\ response' = [response EXCEPT ![h] = NoResponse]
    /\ UNCHANGED <<fields, newsletter, errors, banner, submitBtn, formDisplay,
                   successDisplay, full, data>>

\* The body of an ok response has been read (line 166): a parsed body is
\* returned as {success: true, data: result}; a body that does not parse
\* makes response.json() reject, and the catch block runs.
BodySettles(h) ==
    /\ pc[h] = "body"
    /\ LET parsed == json(response[h])
       IN IF parsed.thrown
          THEN CatchAndFallBack(h, parsed.error)
          ELSE /\ promise' = [promise EXCEPT ![h] =
                                 Fulfilled(Success(NoMessage, parsed.payload))]
               /\ UNCHANGED <<caught, item, now>>
    /\ pc' = [pc EXCEPT ![h] = "resume"]
    /\ response' = [response EXCEPT ![h] = NoResponse]
    /\ UNCHANGED <<fields, newsletter, errors, banner, submitBtn, formDisplay,
                   successDisplay, full, data>>

\* handleSubmit resumes after await this.submitToWaitlist (lines 119-133):
\* the success branch, or the throw of line 125 (or a rejected promise) into
\* the catch block; then the finally block.
Resume(h) ==
    /\ pc[h] = "resume"
    /\ LET p == promise[h]
       IN IF p.state = "fulfilled" /\ p.value.success
          THEN /\ formDisplay' = "none"
               /\ successDisplay' = "block"
               /\ fields' = resetForm(fields, newsletter).fields
               /\ newsletter' = resetForm(fields, newsletter).newsletter
               /\ UNCHANGED banner
          ELSE /\ banner' = showFormError(catchBanner(
                     IF p.state = "rejected" THEN p.error
                     ELSE IF p.value.message # NoMessage THEN p.value.message
                     ELSE Msg("Failed to join waitlist")))
               /\ UNCHANGED <<formDisplay, successDisplay, fields, newsletter>>
    /\ submitBtn' = setLoadingState(FALSE)
    /\ pc' = [pc EXCEPT ![h] = "done"]
    /\ data' = [data EXCEPT ![h] = NoData]
    /\ caught' = [caught EXCEPT ![h] = NoMessage]
    /\ promise' = [promise EXCEPT ![h] = Pending]
    /\ UNCHANGED <<errors, item, full, now, response>>

Next ==
    \/ \E f \in Editable : \E v \in Entered(f) : Input(f, v)
    \/ DismissBanner
    \/ \E f \in RequiredFields : Blur(f)
    \/ \E h \in Invocations : HandleSubmit(h)
    \/ \E h \in Invocations : \E r \in Remote : FetchSettles(h, r)
    \/ \E h \in Invocations : ErrorBodySettles(h)
    \/ \E h \in Invocations : BodySettles(h)
    \/ \E h \in Invocations : Resume(h)

Spec == Init /\ [][Next]_vars

\* ------------------------------------------------------------------------
\* validateField on its own: one field holds a text, 'blur' events validate
\* ------------------------------------------------------------------------

\* The fields validateField is bound to in this specification: the email,
\* the two names, and one field without a check of its own.
ValidatedFields == {"firstName", "lastName", "email", "company"}

\* The characters typed into a name field or a plain field: letters, a
\* digit, another symbol, white space, the apostrophe and the hyphen.
NameChars == {"a", "Z", "7", "!", " ", "'", "-"}

\* The characters typed into the email field.
EmailChars == {"a", "@", ".", " "}

\* All texts of at most n characters of chars.
Strings(chars, n) == UNION {[1..k -> chars] : k \in 0..n}

MaryJane == <<"M","a","r","y","-","J","a","n","e"," ","O","'","B","r","i","e","n">>

\* The texts field f is given.
Typed(f) ==
    IF f = "email"
    THEN Strings(EmailChars, MaxEmailLen) \cup {ANN_EMAIL, not_an_email}
    ELSE Strings(NameChars, MaxNameLen) \cup {MaryJane}

\* One field holds a text and the others are empty.  Under that field there
\* is no error element, or the one an earlier validation left there
\* (form.reset() and scripted changes of a value fire no 'input' event, so
\* an error element can outlive the value it was shown for).
InitValidation ==
    /\ \E f \in ValidatedFields : \E v \in Typed(f) :
          \E stale \in {NoError, "This field is required"} :
             /\ fields = [g \in TextFields |->
                            IF g = f THEN v ELSE EmptyFields[g]]
             /\ errors = [g \in ValidatedFields |->
                            IF g = f THEN stale ELSE NoError]
    /\ newsletter = TRUE
    /\ banner = NoMessage
    /\ submitBtn = InitialButton
    /\ formDisplay = ""
    /\ successDisplay = "none"
    /\ item = NullItem
    /\ full = FALSE
    /\ now = 0
    /\ pc = [h \in Invocations |-> "new"]
    /\ data = [h \in Invocations |-> NoData]
    /\ response = [h \in Invocations |-> NoResponse]
    /\ caught = [h \in Invocations |-> NoMessage]
    /\ promise = [h \in Invocations |-> Pending]

NextValidation == \E f \in ValidatedFields : Blur(f)

SpecValidation == InitValidation /\ [][NextValidation]_vars

\* ------------------------------------------------------------------------
\* Claims
\* ------------------------------------------------------------------------

\* The entries the stored item holds; none for no item.
Waitlist(it) == IF it.kind = "array" THEN it.items ELSE <<>>

\* The stored item is a list of entries, or there is no item.
Readable(it) == it.kind \in {"null", "array"}

HasEmail(waitlist, email) == \E i \in DOMAIN waitlist : waitlist[i].email = email

CountEmail(waitlist, email) ==
    Cardinality({i \in DOMAIN waitlist : waitlist[i].email = email})

\* Entry e is snapshot d plus an id and a submittedAt.
EntryOf(e, d) ==
    /\ DOMAIN e = DOMAIN d \cup {"id", "submittedAt"}
    /\ \A k \in DOMAIN d : e[k] = d[k]

\* This step is invocation h's remote call failing for good: its fetch
\* rejects, or the body of its response that is not ok has been read.
RemoteFailureStep(h) ==
    /\ pc[h] \in {"fetch", "errorBody"}
    /\ pc'[h] = "resume"

\* This step runs the fallback for invocation h.
FallbackStep(h) ==
    /\ pc[h] \in {"fetch", "errorBody", "body"}
    /\ pc'[h] = "resume"
    /\ caught'[h] # NoMessage

\* Invocation h's submitToWaitlist has returned after catching a failure of
\* the remote call.
RemoteFailureCaught(h) ==
    /\ pc[h] = "resume"
    /\ caught[h] \in {Msg("Failed to fetch"), ServerMessage,
                      Msg("Network response was not ok"),
                      <<"HTTP error! status: ", "500">>}

OfflineSuccess(p) ==
    /\ p.state = "fulfilled"
    /\ p.value.success
    /\ p.value.message = Msg("Successfully added to waitlist (offline mode)")

DuplicateFailure(p) ==
    /\ p.state = "fulfilled"
    /\ ~p.value.success
    /\ p.value.message = Msg("This email is already on our waitlist.")

\* C1: when the remote POST of a snapshot fails (the fetch rejects, or the
\* status is not a success), the local store is a list (or absent) that does
\* not hold the snapshot's email, and local storage takes the write, then
\* submitToWaitlist appends exactly one entry, the snapshot plus id and
\* submittedAt, to the store and returns success with the offline-mode
\* message.
C1_RemoteFailureAppendsOneEntry ==
    [][\A h \in Invocations :
          ( /\ RemoteFailureStep(h)
            /\ Readable(item)
            /\ ~HasEmail(Waitlist(item), data[h].email)
            /\ ~full )
          => /\ item'.kind = "array"
             /\ Len(item'.items) = Len(Waitlist(item)) + 1
             /\ SubSeq(item'.items, 1, Len(Waitlist(item))) = Waitlist(item)
             /\ EntryOf(item'.items[Len(item'.items)], data[h])
             /\ OfflineSuccess(promise'[h])]_vars

\* C1 witness: an invocation whose remote call failed has returned the
\* offline-mode success and its snapshot is the last entry of the store.
C1_Witness ==
    \E h \in Invocations :
        /\ RemoteFailureCaught(h)
        /\ OfflineSuccess(promise[h])
        /\ item.kind = "array"
        /\ Len(item.items) >= 1
        /\ EntryOf(item.items[Len(item.items)], data[h])

\* C2: when the remote endpoint answers the POST with a success status,
\* submitToWaitlist returns success carrying the response payload and the
\* local store is left as it was, whatever the response body is.
C2_OkResponseNeverTouchesStore ==
    [][\A h \in Invocations :
          (pc[h] = "body" /\ pc'[h] = "resume")
          => /\ item' = item
             /\ promise'[h].state = "fulfilled"
             /\ promise'[h].value.success
             /\ promise'[h].value.data = response[h].body]_vars

\* C3: when the fallback runs for a snapshot whose email is already in an
\* entry of the local store, it returns the failure 'This email is already
\* on our waitlist.' and leaves the store unchanged, so that the store
\* holds exactly one entry for that email afterwards.
C3_DuplicateIsRejected ==
    [][\A h \in Invocations :
          (FallbackStep(h) /\ HasEmail(Waitlist(item), data[h].email))
          => /\ DuplicateFailure(promise'[h])
             /\ item' = item
             /\ CountEmail(Waitlist(item'), data[h].email) = 1]_vars

\* C3 witness: a fallback has returned the duplicate failure and the store
\* holds one entry for the email.
C3_Witness ==
    \E h \in Invocations :
        /\ pc[h] = "resume"
        /\ caught[h] # NoMessage
        /\ DuplicateFailure(promise[h])
        /\ CountEmail(Waitlist(item), data[h].email) = 1

\* C4: starting from an absent or empty store, no two entries of the local
\* store have the same email (compared trimmed and lower-cased), in every
\* state any sequence of submit attempts reaches.
C4_NoTwoEntriesShareAnEmail ==
    \A i \in DOMAIN Waitlist(item) : \A j \in DOMAIN Waitlist(item) :
        i # j => toLowerCase(trim(Waitlist(item)[i].email))
                   # toLowerCase(trim(Waitlist(item)[j].email))

\* C4 witness: the store holds two entries.
C4_Witness == Len(Waitlist(item)) >= 2

\* C5: two invocations of handleSubmit for the same email that are in
\* flight at once and whose remote calls both fail leave, with a readable
\* and writable local store, exactly one entry for the email, however their
\* steps interleave: each of the two is answered with the offline success
\* or the duplicate failure, and at least one of them is rejected as a
\* duplicate (the entry is stored once, by one of them or before them).
C5_DoubleSubmitStoresOneEntry ==
    \A h \in Invocations : \A k \in Invocations :
        ( /\ h # k
          /\ RemoteFailureCaught(h)
          /\ pc[k] \in {"fetch", "errorBody", "body", "resume"}
          /\ data[k].email = data[h].email
          /\ Readable(item)
          /\ ~full )
        => /\ CountEmail(Waitlist(item), data[h].email) = 1
           /\ OfflineSuccess(promise[h]) \/ DuplicateFailure(promise[h])
           /\ (RemoteFailureCaught(k) =>
                 /\ OfflineSuccess(promise[k]) \/ DuplicateFailure(promise[k])
                 /\ DuplicateFailure(promise[h]) \/ DuplicateFailure(promise[k]))

\* C5 witness: both invocations hold the same snapshot, both have caught
\* the failure of their remote call and neither has resumed.
C5_Witness ==
    \E h \in Invocations : \E k \in Invocations :
        /\ h # k
        /\ RemoteFailureCaught(h)
        /\ RemoteFailureCaught(k)
        /\ data[k].email = data[h].email
        /\ data[k].firstName = data[h].firstName
        /\ CountEmail(Waitlist(item), data[h].email) = 1

\* C6: whatever the remote endpoint does (rejected fetch, success or other
\* status, body that parses or not) and whatever the local store is
\* (absent, a list, unreadable, full), the promise submitToWaitlist returns
\* is never rejected: once the call has returned it is fulfilled with one
\* outcome, a success or a failure value.
C6_PipelineAlwaysResolvesToAnOutcome ==
    \A h \in Invocations :
        /\ promise[h].state # "rejected"
        /\ pc[h] = "resume" =>
              /\ promise[h].state = "fulfilled"
              /\ promise[h].value.success \in BOOLEAN
              /\ promise[h].error = NoMessage

\* C6 witness: the fallback met a store it cannot read, or a storage that
\* is full, and the call has still returned a failure value.
C6_Witness ==
    \E h \in Invocations :
        /\ pc[h] = "resume"
        /\ caught[h] # NoMessage
        /\ ~Readable(item) \/ full
        /\ promise[h].state = "fulfilled"
        /\ ~promise[h].value.success
        /\ promise[h].value.message # NoMessage

\* C7: when the pipeline returns a failure that carries a message, the
\* banner handleSubmit shows is that message (for a duplicate email: 'This
\* email is already on our waitlist.').
C7_BannerShowsFailureMessage ==
    [][\A h \in Invocations :
          ( /\ pc[h] = "resume"
            /\ pc'[h] = "done"
            /\ promise[h].state = "fulfilled"
            /\ ~promise[h].value.success
            /\ promise[h].value.message # NoMessage )
          => banner' = promise[h].value.message]_vars

\* C8: a submit event with a required field that fails validation shows
\* the banner 'Please fill in all required fields correctly.' and ends
\* there: no POST is issued (the invocation never awaits a fetch and holds
\* no snapshot or promise), the local store is unchanged and the submit
\* control is not put in the loading state.
C8_InvalidFormAbortsBeforePipeline ==
    [][\A h \in Invocations :
          ( /\ pc[h] = "new"
            /\ pc'[h] # "new"
            /\ \E f \in RequiredFields : validateField(f, fields[f]) # NoError )
          => /\ banner' = Msg("Please fill in all required fields correctly.")
             /\ pc'[h] = "done"
             /\ data'[h] = NoData
             /\ promise'[h] = Pending
             /\ item' = item
             /\ submitBtn' = submitBtn]_vars

\* C8 witness: a submit of 'not-an-email' has ended with the banner, the
\* inline error on the email field and the submit control as loaded.
C8_Witness ==
    /\ pc[1] = "done"
    /\ fields["email"] = not_an_email
    /\ banner = Msg("Please fill in all required fields correctly.")
    /\ errors["email"] = "Please enter a valid email address"
    /\ submitBtn = InitialButton

\* C9: when an invocation of handleSubmit that entered the loading state
\* completes, whatever the outcome of the pipeline, the submit control is
\* enabled and shows its normal label.
C9_LoadingStateIsLeft ==
    [][\A h \in Invocations :
          (pc[h] = "resume" /\ pc'[h] = "done")
          => /\ ~submitBtn'.disabled
             /\ submitBtn'.btnText = "flex"
             /\ submitBtn'.btnLoading = "none"]_vars

\* C9 witness: every invocation has completed, one of them through the
\* catch block (the generic banner is up), and the control is enabled.
C9_Witness ==
    /\ \A h \in Invocations : pc[h] = "done"
    /\ banner = GenericErrorMessage
    /\ ~submitBtn.disabled
    /\ submitBtn.btnText = "flex"

ann_email_stored == <<"a","n","n","@","e","x","a","m","p","l","e",".","c","o","m">>

\* The entered email trimmed and lower-cased, for the valid emails of the
\* model.
StoredFormOf(entered) ==
    CASE entered = ANN_EMAIL        -> ann_email_stored
      [] entered = ann_email_padded -> ann_email_stored
      [] entered = bob_email        -> bob_email

\* C10: the snapshot's email is the entered email trimmed and lower-cased
\* ('ANN@Example.com' becomes 'ann@example.com'), the fallback stores that
\* email as it is, and a fallback for an email that differs from a stored
\* one only in case or surrounding white space is rejected as a duplicate.
C10_EmailIsStoredNormalized ==
    [][\A h \in Invocations :
          /\ (pc[h] = "new" /\ pc'[h] = "fetch")
                => data'[h].email = StoredFormOf(fields["email"])
          /\ (FallbackStep(h) /\ item' # item)
                => item'.items[Len(item'.items)].email = data[h].email
          /\ (FallbackStep(h) /\ HasEmail(Waitlist(item), data[h].email))
                => DuplicateFailure(promise'[h]) /\ item' = item]_vars

\* C10 witness: 'ANN@Example.com' is in the email field, an invocation
\* holding 'ann@example.com' has been rejected as a duplicate, and the
\* store holds 'ann@example.com'.
C10_Witness ==
    \E h \in Invocations :
        /\ fields["email"] = ANN_EMAIL
        /\ pc[h] = "resume"
        /\ data[h].email = ann_email_stored
        /\ DuplicateFailure(promise[h])
        /\ HasEmail(Waitlist(item), ann_email_stored)

\* The description of the error the fallback meets with stored item it and
\* a storage that is full or not, for a snapshot whose email is not stored:
\* the SyntaxError of JSON.parse, the TypeError of waitlist.some on a value
\* that is no array, the QuotaExceededError of setItem; NoMessage if none.
UnderlyingError(it, isFull) ==
    CASE it.kind = "garbage" -> Msg("Unexpected token")
      [] it.kind = "object"  -> Msg("waitlist.some is not a function")
      [] it.kind \in {"null", "array"} /\ isFull -> Msg("The quota has been exceeded.")
      [] OTHER -> NoMessage

\* C11: when the fallback cannot parse the stored value, cannot use it as a
\* list, or cannot write the store (quota exceeded), it returns a failure
\* whose message is 'Failed to save waitlist entry: ' followed by the
\* description of that error, and the stored value is left as it was.
C11_StorageFailureIsReported ==
    [][\A h \in Invocations :
          ( /\ FallbackStep(h)
            /\ ~HasEmail(Waitlist(item), data[h].email)
            /\ UnderlyingError(item, full) # NoMessage )
          => /\ promise'[h].state = "fulfilled"
             /\ ~promise'[h].value.success
             /\ promise'[h].value.message =
                   <<"Failed to save waitlist entry: ">> \o UnderlyingError(item, full)
             /\ item' = item]_vars

\* C11 witness: with a full storage and no stored item, a fallback has
\* returned the failure that carries the quota error, and there is still no
\* stored item.
C11_Witness ==
    \E h \in Invocations :
        /\ pc[h] = "resume"
        /\ caught[h] # NoMessage
        /\ full
        /\ item = NullItem
        /\ promise[h].state = "fulfilled"
        /\ promise[h].value =
              Failure(<<"Failed to save waitlist entry: ", "The quota has been exceeded.">>)

\* Every character of v is white space (so also: v is empty).
WhiteSpaceOnly(v) == \A i \in DOMAIN v : v[i] \in WhiteSpace

\* C12: whenever validateField runs on a field whose value is empty or
\* white space only, whatever the field (email, first name, last name, a
\* field without a check of its own), the error shown under the field is
\* exactly 'This field is required'.
C12_EmptyValueIsRequired ==
    [][\A f \in ValidatedFields :
          (Blur(f) /\ WhiteSpaceOnly(fields[f]))
          => errors'[f] = "This field is required"]_vars

\* C12 witness: the last name is two spaces and every validated field,
\* the email and the plain field included, shows 'This field is required'.
C12_Witness ==
    /\ fields["lastName"] = <<" ", " ">>
    /\ \A f \in ValidatedFields : WhiteSpaceOnly(fields[f])
    /\ \A f \in ValidatedFields : errors[f] = "This field is required"

\* v is a non-empty run of characters that are neither white space nor '@'.
AtomRun(v) == Len(v) > 0 /\ \A i \in DOMAIN v : v[i] \notin WhiteSpace \cup {"@"}

\* v is local '@' domain '.' rest, each of the three an AtomRun.
EmailShape(v) ==
    \E i \in 1..Len(v) : \E j \in 1..Len(v) :
        /\ i < j
        /\ v = SubSeq(v, 1, i - 1) \o <<"@">> \o SubSeq(v, i + 1, j - 1)
                 \o <<".">> \o SubSeq(v, j + 1, Len(v))
        /\ AtomRun(SubSeq(v, 1, i - 1))
        /\ AtomRun(SubSeq(v, i + 1, j - 1))
        /\ AtomRun(SubSeq(v, j + 1, Len(v)))

\* v has no '@', or no '.' after its first '@'.
LacksAtOrDot(v) ==
    \/ \A i \in DOMAIN v : v[i] # "@"
    \/ \E i \in DOMAIN v :
          /\ v[i] = "@"
          /\ \A k \in 1..(i - 1) : v[k] # "@"
          /\ \A j \in (i + 1)..Len(v) : v[j] # "."

\* C13: whenever validateField runs on the email field with a value that
\* is not empty once trimmed, no error is shown exactly when the trimmed
\* value has the shape atoms '@' atoms '.' atoms; otherwise, and so for
\* every value without '@' or without '.' after the '@', the error shown is
\* 'Please enter a valid email address'.
C13_EmailShapeDecides ==
    [][(Blur("email") /\ ~WhiteSpaceOnly(fields["email"]))
          => LET v == trim(fields["email"])
             IN /\ (errors'["email"] = NoError) <=> EmailShape(v)
                /\ ~EmailShape(v)
                      => errors'["email"] = "Please enter a valid email address"
                /\ LacksAtOrDot(v)
                      => errors'["email"] = "Please enter a valid email address"]_vars

\* C13 witness: 'a@a' (an '@' but no '.' after it) is in the email field
\* and the error under it is 'Please enter a valid email address'.
C13_Witness ==
    /\ fields["email"] = <<"a", "@", "a">>
    /\ LacksAtOrDot(fields["email"])
    /\ errors["email"] = "Please enter a valid email address"

\* The characters a name may be made of.
NameAlphabet ==
    {"a","b","c","d","e","f","g","h","i","j","k","l","m",
     "n","o","p","q","r","s","t","u","v","w","x","y","z",
     "A","B","C","D","E","F","G","H","I","J","K","L","M",
     "N","O","P","Q","R","S","T","U","V","W","X","Y","Z",
     " ", "\t", "\n", "'", "-"}

\* C14: whenever validateField runs on the first name or the last name
\* with a value that is not empty once trimmed, no error is shown exactly
\* when every character is an ASCII letter, white space, an apostrophe or a
\* hyphen; otherwise (a digit, another symbol) the error shown is 'Please
\* use letters only'.  "Mary-Jane O'Brien" passes.
C14_NameCharactersDecide ==
    [][\A f \in {"firstName", "lastName"} :
          (Blur(f) /\ ~WhiteSpaceOnly(fields[f]))
          => LET v == trim(fields[f])
                 lettersOnly == \A i \in DOMAIN v : v[i] \in NameAlphabet
             IN /\ (errors'[f] = NoError) <=> lettersOnly
                /\ ~lettersOnly => errors'[f] = "Please use letters only"
                /\ v = MaryJane => errors'[f] = NoError]_vars

\* C14 witness: a last name with a digit in it shows 'Please use letters
\* only'.
C14_Witness ==
    /\ fields["lastName"] = <<"Z", "-", "7">>
    /\ errors["lastName"] = "Please use letters only"

\* C15: in every reachable state of the local store, any two distinct
\* entries have different ids, also when the fallbacks that inserted them
\* read the same value of the clock.
C15_IdsAreUnique ==
    \A i \in DOMAIN Waitlist(item) : \A j \in DOMAIN Waitlist(item) :
        i # j => Waitlist(item)[i].id # Waitlist(item)[j].id

\* This step is invocation h resuming with the outcome of the pipeline.
ResumeStep(h) == pc[h] = "resume" /\ pc'[h] = "done"

SuccessOutcome(p) == p.state = "fulfilled" /\ p.value.success

\* C16: when handleSubmit resumes with a success, it hides the form, shows
\* the success panel and resets the fields, the newsletter checkbox back to
\* checked; when it resumes with a failure, the form, the panel, the field
\* values and the checkbox are as they were; and nothing else ever hides
\* the form or shows the panel.
C16_SuccessAloneSwitchesToThePanel ==
    [][/\ \A h \in Invocations :
            ResumeStep(h) =>
               IF SuccessOutcome(promise[h])
               THEN /\ formDisplay' = "none"
                    /\ successDisplay' = "block"
                    /\ fields' = [f \in TextFields |->
                                     IF f = "interest" THEN <<"d","e","m","o">>
                                     ELSE <<>>]
                    /\ newsletter'
               ELSE /\ formDisplay' = formDisplay
                    /\ successDisplay' = successDisplay
                    /\ fields' = fields
                    /\ newsletter' = newsletter
       /\ (formDisplay' # formDisplay \/ successDisplay' # successDisplay)
             => \E h \in Invocations :
                   ResumeStep(h) /\ SuccessOutcome(promise[h])]_vars

\* C16 witness: the form is hidden, the panel shown, the fields are empty
\* and the checkbox is checked, after a submission made with the checkbox
\* unchecked (the stored entry says so).
C16_Witness ==
    /\ formDisplay = "none"
    /\ successDisplay = "block"
    /\ fields["email"] = <<>>
    /\ fields["firstName"] = <<>>
    /\ newsletter
    /\ Len(Waitlist(item)) >= 1
    /\ ~Waitlist(item)[1].newsletter

\* Invocation h is past validation and has not finished with the outcome
\* of its pipeline call.
Active(h) == pc[h] \in {"fetch", "errorBody", "body", "resume"}

\* This step is a submit event that starts invocation h's pipeline call.
StartStep(h) == pc[h] = "new" /\ pc'[h] = "fetch"

\* C17: at most one submit sequence is active at any time: a submit event
\* delivered while an earlier one is awaiting the pipeline does not start
\* a second pipeline call.
C17_AtMostOneActive ==
    \A h \in Invocations : \A k \in Invocations :
        (Active(h) /\ Active(k)) => h = k

\* The submit control reflects the activity: at most one submit sequence is
\* active, and while one is, the control is disabled.
ControlReflectsActivity ==
    /\ C17_AtMostOneActive
    /\ (\E h \in Invocations : Active(h)) => submitBtn.disabled

\* C17 as amended: as long as every submit event is delivered while the
\* submit control is enabled, at most one submit sequence is active and the
\* control is disabled while it is: no step taken with the control
\* respected leads from such a state to two active sequences, or to an
\* active sequence with the control enabled.
C17_OneActiveIfControlIsRespected ==
    [][( /\ ControlReflectsActivity
         /\ \A h \in Invocations : (pc[h] = "new" /\ pc'[h] # "new")
                                       => ~submitBtn.disabled )
       => ControlReflectsActivity']_vars

\* C17 witness: a sequence has finished with a failure, which enabled the
\* control again, and the next one is awaiting its fetch with the control
\* disabled.
C17_Witness ==
    /\ pc[1] = "done"
    /\ banner = GenericErrorMessage
    /\ pc[2] = "fetch"
    /\ submitBtn.disabled

\* Sequence s is the beginning of sequence t.
IsPrefix(s, t) == Len(s) <= Len(t) /\ SubSeq(t, 1, Len(s)) = s

\* C18: the local store only grows at its end: with no item read as the
\* empty list, every step leaves the entries it held as the beginning of
\* the entries it holds afterwards, appends at most one entry, and appends
\* one only in a fallback; so the content at any earlier time is a prefix
\* of the content at any later time.
C18_StoreIsAppendOnly ==
    [][/\ IsPrefix(Waitlist(item), Waitlist(item'))
       /\ Len(Waitlist(item')) <= Len(Waitlist(item)) + 1
       /\ item' # item =>
             /\ item'.kind = "array"
             /\ Len(Waitlist(item')) = Len(Waitlist(item)) + 1
             /\ \E h \in Invocations : FallbackStep(h)]_vars

\* C18 witness: every invocation has finished and the store holds the
\* entries of two fallbacks, the later one after the earlier one.
C18_Witness ==
    /\ \A h \in Invocations : pc[h] = "done"
    /\ item.kind = "array"
    /\ Len(item.items) = 2
    /\ item.items[1].email = bob_email
    /\ item.items[2].email = ann_email_stored

\* C19: in every reachable state, while some handleSubmit invocation is
\* awaiting the submission pipeline (its fetch or the body of its
\* response), the submit control is disabled and the loading label is
\* shown, also when two invocations overlap and one has finished.
C19_LoadingWhileAnyAwaits ==
    (\E h \in Invocations : pc[h] \in {"fetch", "errorBody", "body"})
    => /\ submitBtn.disabled
       /\ submitBtn.btnLoading = "flex"
       /\ submitBtn.btnText = "none"

\* C20: when the remote call has answered with a status that is not a
\* success, the message of the remote failure is the 'message' of the
\* error body if the body parses and has one, and is made from the HTTP
\* status code if the body does not parse.
C20_RemoteFailureMessage ==
    [][\A h \in Invocations :
          (pc[h] = "errorBody" /\ pc'[h] = "resume")
          => /\ response[h].body = "message"
                   => caught'[h] = Msg("Email rejected by server")
             /\ response[h].body = "garbage"
                   => caught'[h] = <<"HTTP error! status: ",
                                     ToString(response[h].status)>>]_vars

====
